---- MODULE Spec2Model ----
(***************************************************************************)
(* minimax-ab (baby_driver.py) over an abstract board.                     *)
(*                                                                         *)
(* The python-chess board is an external collaborator.  It is abstracted   *)
(* to a board on which one token walks down a file of squares: a move      *)
(* takes the token from its square to a lower one, the side to move        *)
(* alternates, and every square has a kind that fixes what board.result(), *)
(* board.is_game_over() and board.legal_moves answer on it.  minimax and   *)
(* play_game are translated statement by statement; the recursion of       *)
(* minimax is an explicit stack of frames.                                 *)
(***************************************************************************)
EXTENDS Integers, Sequences, FiniteSets, TLC

VARIABLES board, frames, status, players, pushes, pops

vars == <<board, frames, status, players, pushes, pops>>

---------------------------------------------------------------------------
(* Bounds of the model *)

MaxSquare == 4
MaxDepth == 3
MaxHistory == 2

---------------------------------------------------------------------------
(* Values *)

\* float("inf"): larger than every evaluation
Inf == 99
NegInf == -Inf

WHITE == TRUE
BLACK == FALSE

Squares == 0..MaxSquare
Steps == {1, 2}

\* None, and the bound method board.peek (an accessor, not a move)
None == [kind |-> "None"]
PeekAccessor == [kind |-> "bound method", name |-> "peek"]

Move(from, to, promo) ==
    [kind |-> "Move", from_square |-> from, to_square |-> to, promotion |-> promo]

Max(a, b) == IF a >= b THEN a ELSE b
Min(a, b) == IF a <= b THEN a ELSE b

\* faulty variant of uci: the promotion piece is left out
uci_NoPromotion(m) == <<m.from_square, m.to_square>>

\* str(move): the UCI text of a move, the promotion piece ("q") only when there
\* is one; a move onto square 0 promotes
uci(m) ==
    IF m.promotion = "" THEN <<m.from_square, m.to_square>>
    ELSE <<m.from_square, m.to_square, m.promotion>>

\* faulty variant of from_uci: the promotion piece is not read
from_uci_NoPromotion(u) == Move(u[1], u[2], "")

\* chess.Move.from_uci: parses the squares and the optional promotion piece
from_uci(u) ==
    Move(u[1], u[2], IF Len(u) = 3 THEN u[3] ELSE "")

---------------------------------------------------------------------------
(* The board *)

Kinds == {"open", "checkmate", "stalemate", "draw"}

\* Square 0 ends the game; at most one other square below the top is special.
Layouts ==
    { [s \in Squares |-> IF s = 0 THEN k0 ELSE IF s = sp THEN ks ELSE "open"] :
        k0 \in {"checkmate", "stalemate"}, sp \in 1..(MaxSquare - 1), ks \in Kinds }

\* chess.Board()
NewBoard(layout) ==
    [kinds |-> layout, square |-> MaxSquare, turn |-> WHITE, move_stack |-> <<>>]

KindOf(b) == b.kinds[b.square]

\* board.legal_moves
LegalMoves(b) ==
    IF KindOf(b) \in {"checkmate", "stalemate"} THEN {}
    ELSE { Move(b.square, b.square - s, IF b.square - s = 0 THEN "q" ELSE "") :
             s \in {t \in Steps : t <= b.square} }

\* board.is_game_over()
IsGameOver(b) == KindOf(b) # "open" \/ LegalMoves(b) = {}

\* board.result(): the side to move is the one checkmated
Result(b) ==
    CASE KindOf(b) = "checkmate" -> IF b.turn = WHITE THEN "0-1" ELSE "1-0"
      [] KindOf(b) \in {"stalemate", "draw"} -> "1/2-1/2"
      [] OTHER -> "*"

\* board.push(move)
BoardPush(b, m) ==
    [b EXCEPT !.square = m.to_square, !.turn = ~b.turn,
              !.move_stack = Append(b.move_stack, m)]

\* board.peek()
BoardPeek(b) == b.move_stack[Len(b.move_stack)]

\* board.pop()
BoardPop(b) ==
    [b EXCEPT !.square = BoardPeek(b).from_square, !.turn = ~b.turn,
              !.move_stack = SubSeq(b.move_stack, 1, Len(b.move_stack) - 1)]

\* The orders random.shuffle can leave a list of the moves in
Shuffles(S) ==
    { p \in [1..Cardinality(S) -> S] : \A i, j \in 1..Cardinality(S) : p[i] = p[j] => i = j }

---------------------------------------------------------------------------
(* Evaluation functions: positive is good for White *)

EvalTable ==
    << [s \in Squares |-> 0],
       [s \in Squares |-> 2 * s - MaxSquare],
       [s \in Squares |-> IF s % 2 = 0 THEN 1 ELSE -1] >>

Evaluators == 1..Len(EvalTable)

Evaluate(e, b) == EvalTable[e][b.square]

---------------------------------------------------------------------------
(* minimax: one frame per active call *)

Frame(depth, alpha, beta, is_maximizing, eval_func, b) ==
    [depth |-> depth, alpha |-> alpha, beta |-> beta,
     is_maximizing |-> is_maximizing, eval_func |-> eval_func,
     pc |-> "start", possible_moves |-> <<>>, i |-> 0,
     best_score |-> 0, best_move |-> None, ret |-> <<0, None>>,
     \* history of the call, kept for the properties only
     entry |-> b, alpha0 |-> alpha, beta0 |-> beta,
     seen |-> <<>>, cut |-> FALSE, pruned |-> FALSE]

Top == frames[Len(frames)]
SetTop(f) == [frames EXCEPT ![Len(frames)] = f]

\* depth == 0: board.peek() raises IndexError on an empty move stack
LeafRaises(b) == Result(b) # "0-1" /\ b.move_stack = <<>>

\* faulty variant of LeafScore: the evaluation is not negated
LeafScore_NotNegated(b, eval_func) ==
    IF Result(b) = "1-0" THEN Inf
    ELSE IF Result(b) = "0-1" THEN NegInf
    ELSE Evaluate(eval_func, b)

\* faulty variant of LeafScore: the two won results are taken for each other
LeafScore_Swapped(b, eval_func) ==
    IF Result(b) = "1-0" THEN NegInf
    ELSE IF Result(b) = "0-1" THEN Inf
    ELSE -Evaluate(eval_func, b)

\* depth == 0: the score returned
LeafScore(b, eval_func) ==
    IF Result(b) = "1-0" THEN Inf
    ELSE IF Result(b) = "0-1" THEN NegInf
    ELSE -Evaluate(eval_func, b)

\* depth == 0: the move returned: board.peek() in two branches, board.peek in one
LeafMove(b) ==
    IF Result(b) = "0-1" THEN PeekAccessor ELSE BoardPeek(b)

\* depth == 0: the pair returned
LeafPair(b, eval_func) == <<LeafScore(b, eval_func), LeafMove(b)>>

\* best_score = float("-inf") / float("inf")
Sentinel(is_maximizing) == IF is_maximizing THEN NegInf ELSE Inf

\* best_score = max(best_score, pair[0]) / min(best_score, pair[0])
BestScore(f, pair) ==
    IF f.is_maximizing THEN Max(f.best_score, pair[1]) ELSE Min(f.best_score, pair[1])

\* faulty variant of BestMove: only a strictly better score replaces the move
BestMove_Strict(f, pair, best_score, b) ==
    IF pair[1] = best_score /\ pair[1] # f.best_score THEN BoardPeek(b) ELSE f.best_move

\* faulty variant of BestMove: the move the recursive call returned is kept
BestMove_OfChild(f, pair, best_score, b) ==
    IF pair[1] = best_score THEN pair[2] ELSE f.best_move

\* if pair[0] == best_score: best_move = board.peek()
BestMove(f, pair, best_score, b) ==
    IF pair[1] = best_score THEN BoardPeek(b) ELSE f.best_move

\* faulty variant of NewAlpha: the minimizing player raises alpha as well
NewAlpha_BothRoles(f, best_score) == Max(f.alpha, best_score)

\* alpha = max(alpha, best_score)   (maximizing player only)
NewAlpha(f, best_score) ==
    IF f.is_maximizing THEN Max(f.alpha, best_score) ELSE f.alpha

\* beta = min(beta, best_score)     (minimizing player only)
NewBeta(f, best_score) ==
    IF f.is_maximizing THEN f.beta ELSE Min(f.beta, best_score)

\* faulty variant of Prune: the comparison is turned round
Prune_Reversed(alpha, beta) == alpha <= beta

\* if beta <= alpha: return
Prune(alpha, beta) == beta <= alpha

\* faulty variant of Undo: the move is left on the board
Undo_Missing(b) == b

\* board.pop() after the recursive call
Undo(b) == BoardPop(b)

\* the recursive call's arguments
Child(f, b) ==
    Frame(f.depth - 1, f.alpha, f.beta, ~f.is_maximizing, f.eval_func, b)

\* if depth == 0: ... return
BaseCase ==
    /\ status = "search" /\ frames # <<>>
    /\ Top.pc = "start" /\ Top.depth = 0
    /\ IF LeafRaises(board)
       THEN /\ status' = "IndexError"
            /\ frames' = SetTop([Top EXCEPT !.pc = "raised"])
       ELSE /\ status' = status
            /\ frames' = SetTop([Top EXCEPT !.pc = "ret",
                                            !.ret = LeafPair(board, Top.eval_func)])
    /\ UNCHANGED <<board, players, pushes, pops>>

\* possible_moves = list(board.legal_moves); random.shuffle(possible_moves);
\* best_score, best_move = sentinel, None
Shuffle ==
    /\ status = "search" /\ frames # <<>>
    /\ Top.pc = "start" /\ Top.depth # 0
    /\ \E p \in Shuffles(LegalMoves(board)) :
         frames' = SetTop([Top EXCEPT !.pc = "loop", !.possible_moves = p,
                                      !.best_score = Sentinel(Top.is_maximizing),
                                      !.best_move = None])
    /\ UNCHANGED <<board, status, players, pushes, pops>>

\* for x in possible_moves: move = from_uci(str(x)); board.push(move); minimax(...)
PushMove ==
    /\ status = "search" /\ frames # <<>>
    /\ Top.pc = "loop" /\ Top.i < Len(Top.possible_moves)
    /\ LET move == from_uci(uci(Top.possible_moves[Top.i + 1]))
       IN /\ board' = BoardPush(board, move)
          /\ frames' = Append(frames, Child(Top, board'))
    /\ pushes' = pushes + 1
    /\ UNCHANGED <<status, players, pops>>

\* the call returned into the loop body: best_score, best_move, board.pop(),
\* alpha/beta, and the pruning return
ReturnToCaller ==
    /\ status = "search" /\ Len(frames) >= 2
    /\ Top.pc = "ret"
    /\ LET pair == Top.ret
           f == frames[Len(frames) - 1]
           best_score == BestScore(f, pair)
           best_move == BestMove(f, pair, best_score, board)
           alpha == NewAlpha(f, best_score)
           beta == NewBeta(f, best_score)
           g == [f EXCEPT !.best_score = best_score, !.best_move = best_move,
                          !.alpha = alpha, !.beta = beta, !.i = f.i + 1,
                          !.seen = Append(f.seen, pair[1]),
                          !.pruned = f.pruned \/ Top.pruned]
       IN /\ board' = Undo(board)
          /\ frames' = Append(SubSeq(frames, 1, Len(frames) - 2),
                              IF Prune(alpha, beta)
                              THEN [g EXCEPT !.pc = "ret", !.cut = TRUE,
                                             !.pruned = g.pruned \/ g.i < Len(g.possible_moves),
                                             !.ret = <<best_score, best_move>>]
                              ELSE g)
    /\ pops' = pops + 1
    /\ UNCHANGED <<status, players, pushes>>

\* the loop ran out of moves: return (best_score, best_move)
LoopExit ==
    /\ status = "search" /\ frames # <<>>
    /\ Top.pc = "loop" /\ Top.i = Len(Top.possible_moves)
    /\ frames' = SetTop([Top EXCEPT !.pc = "ret",
                                    !.ret = <<Top.best_score, Top.best_move>>])
    /\ UNCHANGED <<board, status, players, pushes, pops>>

---------------------------------------------------------------------------
(* play_game *)

Players ==
    [white_eval : Evaluators, white_depth : 0..MaxDepth,
     black_eval : Evaluators, black_depth : 0..MaxDepth]

NoPlayers == [white_eval |-> 1, white_depth |-> 0, black_eval |-> 1, black_depth |-> 0]

\* while not board.is_game_over(): best_pair = minimax(...)
Turn ==
    /\ status = "loop" /\ ~IsGameOver(board)
    /\ frames' = IF board.turn = WHITE
                 THEN <<Frame(players.white_depth, Inf, NegInf, TRUE,
                              players.white_eval, board)>>
                 ELSE <<Frame(players.black_depth, NegInf, Inf, FALSE,
                              players.black_eval, board)>>
    /\ status' = "search"
    /\ pushes' = 0 /\ pops' = 0
    /\ UNCHANGED <<board, players>>

\* board.push(best_pair[1]): push() takes any Move without testing that it is
\* legal, and fails on a value that is no Move; a board that took an illegal
\* move is not followed further
ApplyMove ==
    /\ status = "search" /\ Len(frames) = 1 /\ Top.pc = "ret"
    /\ LET m == Top.ret[2]
       IN IF m \in LegalMoves(board)
          THEN board' = BoardPush(board, m) /\ status' = "loop"
          ELSE board' = board /\
               status' = IF m.kind = "Move" THEN "illegal push" ELSE "AttributeError"
    /\ frames' = <<>>
    /\ UNCHANGED <<players, pushes, pops>>

\* return board.result()
GameOver ==
    /\ status = "loop" /\ IsGameOver(board)
    /\ status' = "returned"
    /\ UNCHANGED <<board, frames, players, pushes, pops>>

---------------------------------------------------------------------------
(* Specifications *)

\* alpha and beta as the caller may give them
Bounds == {NegInf, -2, 2, Inf}

RECURSIVE ReachableBoards(_, _)
ReachableBoards(layout, n) ==
    IF n = 0 THEN {NewBoard(layout)}
    ELSE LET R == ReachableBoards(layout, n - 1)
         IN R \cup { BoardPush(b, m) : <<b, m>> \in
                       { bm \in R \X { Move(f, t, p) : f \in Squares, t \in Squares, p \in {"", "q"} } :
                           bm[2] \in LegalMoves(bm[1]) } }

\* One call of minimax, on any board reached from the initial position in at
\* most MaxHistory moves, with any arguments
Init ==
    /\ \E layout \in Layouts : board \in ReachableBoards(layout, MaxHistory)
    /\ \E depth \in 0..MaxDepth, alpha \in Bounds, beta \in Bounds,
          is_maximizing \in BOOLEAN, eval_func \in Evaluators :
         frames = <<Frame(depth, alpha, beta, is_maximizing, eval_func, board)>>
    /\ status = "search"
    /\ players = NoPlayers
    /\ pushes = 0 /\ pops = 0

Next == BaseCase \/ Shuffle \/ PushMove \/ ReturnToCaller \/ LoopExit

Spec == Init /\ [][Next]_vars

\* play_game(white_eval, white_depth, black_eval, black_depth)
InitGame ==
    /\ \E layout \in Layouts : board = NewBoard(layout)
    /\ players \in Players
    /\ frames = <<>>
    /\ status = "loop"
    /\ pushes = 0 /\ pops = 0

NextGame == Next \/ Turn \/ ApplyMove \/ GameOver

SpecGame == InitGame /\ [][NextGame]_vars

---------------------------------------------------------------------------
(* Reference: minimax with the pruning return removed *)

SetMax(S) == CHOOSE x \in S : \A y \in S : y <= x
SetMin(S) == CHOOSE x \in S : \A y \in S : x <= y

\* lines 24-93 without "if beta <= alpha: return": every move of every node
RECURSIVE Exhaustive(_, _, _, _)
Exhaustive(b, depth, is_maximizing, eval_func) ==
    IF depth = 0 THEN LeafScore(b, eval_func)
    ELSE LET S == { Exhaustive(BoardPush(b, from_uci(uci(m))), depth - 1,
                               ~is_maximizing, eval_func) : m \in LegalMoves(b) }
         IN IF S = {} THEN Sentinel(is_maximizing)
            ELSE IF is_maximizing THEN SetMax(S) ELSE SetMin(S)

---------------------------------------------------------------------------
(* Properties *)

Root == frames[1]

\* the outermost call has returned
RootDone == Len(frames) = 1 /\ Root.pc = "ret"

\* a call (at any level) is returning
Returning == frames # <<>> /\ Top.pc = "ret"

RootValue ==
    Exhaustive(Root.entry, Root.depth, Root.is_maximizing, Root.eval_func)

Finite(x) == NegInf < x /\ x < Inf

\* the moves of b that give checkmate
MatingMoves(b) ==
    { m \in LegalMoves(b) : Result(BoardPush(b, m)) \in {"1-0", "0-1"} }

\* C1 as stated: with finite caller-supplied alpha < beta, the score returned
\* equals the score of the exhaustive minimax.
C1_AnyFiniteWindow ==
    (RootDone /\ Finite(Root.alpha0) /\ Finite(Root.beta0) /\ Root.alpha0 < Root.beta0)
        => Root.ret[1] = RootValue

\* C1 amended: when the call starts with alpha = -inf and beta = +inf, or with a
\* window that holds the exhaustive score strictly inside (alpha < score < beta),
\* the score returned equals the score of the exhaustive minimax.
C1_WindowHoldsValue ==
    Returning =>
        LET v == Exhaustive(Top.entry, Top.depth, Top.is_maximizing, Top.eval_func)
        IN (\/ (Top.alpha0 = NegInf /\ Top.beta0 = Inf)
            \/ (Top.alpha0 < v /\ v < Top.beta0))
             => Top.ret[1] = v

\* a search of depth 2 in which a pruning return skipped moves, from the full
\* window, returned the exhaustive score
C1_Witness ==
    /\ RootDone /\ Root.depth >= 2 /\ Root.pruned
    /\ Root.alpha0 = NegInf /\ Root.beta0 = Inf
    /\ Finite(Root.ret[1]) /\ Root.ret[1] = RootValue

\* C2: when a call of minimax returns (or raises), at any level and also through
\* the pruning return, the board is what it was when the call began, and the
\* pushes made so far exceed the pops by one per call still active below the root.
C2_BoardRestored ==
    frames # <<>> =>
        /\ Top.pc \in {"ret", "raised"} => board = Top.entry
        /\ status = "search" => pushes - pops = Len(frames) - 1

\* the root call returned through the pruning return after several pushes
C2_Witness ==
    /\ RootDone /\ Root.cut /\ Root.depth >= 2 /\ pushes >= 3 /\ pushes = pops
    /\ board = Root.entry /\ board.move_stack # <<>>

\* C3 as stated: at depth 0 on any position whose game is not over, minimax
\* returns (-e(position), last move played).
C3_AnyPosition ==
    (frames # <<>> /\ Top.depth = 0 /\ Top.pc # "start" /\ ~IsGameOver(board))
        => /\ Top.pc = "ret"
           /\ Top.ret = <<-Evaluate(Top.eval_func, board), BoardPeek(board)>>

\* C3 amended: at depth 0 on a position whose game is not over and on which a
\* move has been played, minimax returns (-e(position), last move played),
\* whatever alpha, beta and the role, with no move enumerated or applied.
C3_DepthZero ==
    (frames # <<>> /\ Top.depth = 0 /\ Top.pc # "start" /\ ~IsGameOver(board)
        /\ board.move_stack # <<>>)
        => /\ Top.pc = "ret"
           /\ Top.ret = <<-Evaluate(Top.eval_func, board), BoardPeek(board)>>
           /\ Top.possible_moves = <<>> /\ Top.i = 0
           /\ board = Top.entry
           /\ Len(frames) = 1 => pushes = 0

\* a depth-0 root call on an open position returned a nonzero evaluation, negated
C3_Witness ==
    /\ RootDone /\ Root.depth = 0 /\ ~IsGameOver(board)
    /\ Evaluate(Root.eval_func, board) > 0
    /\ Root.ret[1] = -Evaluate(Root.eval_func, board)
    /\ Root.ret[2] = BoardPeek(board)

\* C4: at depth 0 on a game won by the minimizing side (result "0-1"), minimax
\* returns (-inf, m), m being the last move played, a Move value.
C4_ConcreteMove ==
    (Returning /\ Top.depth = 0 /\ Result(board) = "0-1")
        => Top.ret = <<NegInf, BoardPeek(board)>>

\* C5 as stated: when the side to move has a move that gives checkmate, minimax
\* called for that side with a positive depth returns a mating move with +inf.
C5_MateInOne ==
    (RootDone /\ Root.depth > 0 /\ MatingMoves(board) # {}
        /\ Root.is_maximizing = (board.turn = WHITE))
        => /\ Root.ret[1] = Inf
           /\ Root.ret[2] \in MatingMoves(board)

\* C5 amended: when White, called as the maximizing player with alpha < +inf and
\* beta = +inf, has a mating move, every positive depth returns the score +inf,
\* and depth 1 returns a mating move; for Black, called as the minimizing player
\* with alpha = -inf and beta > -inf, the same with the score -inf.
C5_MateFound ==
    (RootDone /\ Root.depth > 0 /\ MatingMoves(board) # {})
        => /\ (board.turn = WHITE /\ Root.is_maximizing
                 /\ Root.alpha0 < Inf /\ Root.beta0 = Inf)
                => /\ Root.ret[1] = Inf
                   /\ Root.depth = 1 => Root.ret[2] \in MatingMoves(board)
           /\ (board.turn = BLACK /\ ~Root.is_maximizing
                 /\ Root.alpha0 = NegInf /\ Root.beta0 > NegInf)
                => /\ Root.ret[1] = NegInf
                   /\ Root.depth = 1 => Root.ret[2] \in MatingMoves(board)

\* White at depth 1, with a mating move and another move tried first, returned
\* the mating move with +inf
C5_Witness ==
    /\ RootDone /\ Root.depth = 1 /\ board.turn = WHITE /\ Root.is_maximizing
    /\ Root.alpha0 = NegInf /\ Root.beta0 = Inf
    /\ Len(Root.seen) >= 2 /\ Root.possible_moves[1] \notin MatingMoves(board)
    /\ Root.ret[1] = Inf /\ Root.ret[2] \in MatingMoves(board)

\* C6: in every pair a call of minimax returns, the move is None only if the
\* node has no legal move, and a node of depth > 0 with a legal move returns one
\* of its legal moves.
C6_MoveOption ==
    Returning =>
        /\ Top.ret[2] = None => LegalMoves(Top.entry) = {}
        /\ (Top.depth > 0 /\ LegalMoves(Top.entry) # {})
             => Top.ret[2] \in LegalMoves(Top.entry)

\* a node of depth > 0 with two legal moves returned one of them through the
\* pruning return
C6_Witness ==
    /\ Returning /\ Top.depth > 0 /\ Cardinality(LegalMoves(Top.entry)) >= 2
    /\ Top.ret[2] \in LegalMoves(Top.entry)
    /\ Top.cut

\* a node of depth > 0 without legal move returned None
C6_WitnessNone ==
    Returning /\ Top.depth > 0 /\ LegalMoves(Top.entry) = {} /\ Top.ret[2] = None

\* the score the exhaustive search gives the k-th move of a node
ChildValue(f, k) ==
    Exhaustive(BoardPush(f.entry, f.possible_moves[k]), f.depth - 1,
               ~f.is_maximizing, f.eval_func)

LastIndex(S) == CHOOSE k \in S : \A j \in S : j <= k

\* C7 as stated: in a fixed order of the moves, when several moves of a node of
\* depth > 0 have the same best score, minimax returns the last of them.
C7_LastOfAll ==
    (Returning /\ Top.depth > 0 /\ Top.possible_moves # <<>>)
        => LET n == Len(Top.possible_moves)
               best == IF Top.is_maximizing
                       THEN SetMax({ChildValue(Top, k) : k \in 1..n})
                       ELSE SetMin({ChildValue(Top, k) : k \in 1..n})
           IN Top.ret[2] =
                Top.possible_moves[LastIndex({k \in 1..n : ChildValue(Top, k) = best})]

\* C7 amended: a node of depth > 0 returns the last, in iteration order, of the
\* moves it examined whose returned score equals the best score; the loop stops
\* at the first move after which beta <= alpha, and the moves after it in the
\* order are not considered.
C7_LastExamined ==
    (Returning /\ Top.depth > 0 /\ Top.possible_moves # <<>>)
        => /\ Len(Top.seen) = Top.i /\ Top.i >= 1
           /\ Top.ret[2] =
                Top.possible_moves[LastIndex({k \in 1..Top.i : Top.seen[k] = Top.ret[1]})]
           /\ Top.i < Len(Top.possible_moves) => Top.cut

\* two examined moves tie for the best score and the later one is returned
C7_Witness ==
    /\ Returning /\ Top.depth > 0 /\ Top.i >= 2
    /\ \E j, k \in 1..Top.i :
         /\ j < k /\ Top.seen[j] = Top.ret[1] /\ Top.seen[k] = Top.ret[1]
         /\ Top.ret[2] = Top.possible_moves[k]
         /\ Top.ret[2] # Top.possible_moves[j]

\* C8 as stated: on a position with exactly one legal move minimax returns that
\* move, whatever the depth.
C8_AnyDepth ==
    (RootDone /\ Cardinality(LegalMoves(board)) = 1)
        => Root.ret[2] \in LegalMoves(board)

\* C8 amended: on a position with exactly one legal move minimax returns that
\* move at every depth > 0, whatever the evaluator, alpha, beta and the role; at
\* depth 0 it returns the last move played.
C8_SingleMove ==
    (RootDone /\ Cardinality(LegalMoves(board)) = 1)
        => IF Root.depth > 0 THEN Root.ret[2] \in LegalMoves(board)
           ELSE Root.ret[2] = BoardPeek(board)

\* a search of depth 2 returned the only legal move
C8_Witness ==
    /\ RootDone /\ Cardinality(LegalMoves(board)) = 1 /\ Root.depth = 2
    /\ Root.ret[2] \in LegalMoves(board)

\* the game went wrong: minimax raised, or play_game pushed what minimax gave it
\* and that was no legal move
Failed == status \in {"IndexError", "AttributeError", "illegal push"}

\* C9 as stated: for all depths >= 0 of the two players, the move play_game gets
\* from minimax and pushes is set and is a legal move of the current position.
C9_AnyDepths ==
    /\ RootDone => Root.ret[2] \in LegalMoves(board)
    /\ ~Failed

\* C9 amended: when both players' depths are >= 1, the move play_game gets from
\* minimax and pushes is set and is a legal move of the current position.
C9_LegalMoves ==
    (players.white_depth >= 1 /\ players.black_depth >= 1)
        => /\ RootDone => (~IsGameOver(board) /\ Root.ret[2] \in LegalMoves(board))
           /\ ~Failed

\* a game of two moves or more was played to its end
C9_Witness ==
    /\ status = "returned" /\ Len(board.move_stack) >= 2
    /\ players.white_depth >= 1 /\ players.black_depth >= 1

\* C10: a call with alpha = +inf and beta = -inf and depth >= 1 examines at most
\* one move per node, every node that examined a move returns through the
\* pruning return, and the root returns the first move of its shuffled order.
C10_InvertedWindow ==
    (frames # <<>> /\ Root.alpha0 = Inf /\ Root.beta0 = NegInf /\ Root.depth >= 1)
        => /\ \A k \in 1..Len(frames) :
                /\ frames[k].i <= 1
                /\ frames[k].i = 1 => (frames[k].pc = "ret" /\ frames[k].cut)
           /\ (RootDone /\ Root.possible_moves # <<>>)
                => Root.ret[2] = Root.possible_moves[1]

\* a root of two moves and depth 2 returned after one move, its first
C10_Witness ==
    /\ RootDone /\ Root.alpha0 = Inf /\ Root.beta0 = NegInf /\ Root.depth = 2
    /\ Len(Root.possible_moves) = 2 /\ Root.i = 1 /\ pushes = 2
    /\ Root.ret[2] = Root.possible_moves[1]

====
